---- MODULE Spec2Model ----
(***************************************************************************)
(* Source estimation by maximum likelihood (src/source_estimation.py):     *)
(* ml_estimate, posterior_from_logLH and logLH_source_tree.                *)
(*                                                                         *)
(* Numbers.  The program computes on doubles; the model computes on exact  *)
(* values and leaves rounding, overflow and underflow out.                 *)
(*   - A real r >= 0 (a probability, a density) is a fraction <<n, d>> in  *)
(*     lowest terms; <<1, 0>> is +inf and <<0, 0>> is NaN.                 *)
(*   - A log-domain double v (a log-likelihood, the bias) is the record    *)
(*     [exp |-> exp(v)]: -inf is [exp |-> <<0, 1>>], and v - w divides the *)
(*     two fractions, so that (-inf) - (-inf) is 0/0 = NaN as in IEEE.     *)
(*   - Observation times, mean delays and covariances are integers: times  *)
(*     in units of tau with tau^2 = ln 2 / pi, covariances in units of     *)
(*     1/(2 pi).  On this lattice exp(-1/2 r' Sigma^-1 r) = 2^-(r' S^-1 r) *)
(*     and (2 pi)^(k-1) det Sigma = det S / (2 pi), so the density the     *)
(*     program computes is sqrt(2 pi) * 2^-Q / sqrt(det S); the factor     *)
(*     sqrt(2 pi), the same for every candidate, is left out of the        *)
(*     stored fraction (it cancels in value - bias).                       *)
(***************************************************************************)
EXTENDS Integers, Sequences, FiniteSets, TLC

VARIABLES
    nodes,            \* list(graph.nodes): the graph's nodes in iteration order
    obs_time,         \* observer -> observation time
    path_lengths,     \* the path-length ensemble handed to source_est_tools
    pc,               \* position in the running function
    obs_list,         \* ml_estimate: shuffled list of observers
    ref_obs,          \* ml_estimate: reference observer (0 before line 43)
    loglikelihood,    \* dict node -> log-likelihood, as a list of <<key, value>>
    todo,             \* candidate_nodes not yet visited by the loop of line 56
    posterior,        \* dict node -> posterior, as a list of <<key, value>>
    scores,           \* sorted posterior items
    source_candidate, \* scores[0][0] (0 before line 74)
    error,            \* the exception that ended the call, "none" otherwise
    evals,            \* history: <<s, ref_obs, obs_list>> of every evaluation
    prev,             \* result of the previous call on the same input
    lh_args,          \* arguments of a direct call of logLH_source_tree
    lh_ret            \* its result

vars == <<nodes, obs_time, path_lengths, pc, obs_list, ref_obs, loglikelihood,
          todo, posterior, scores, source_candidate, error, evals, prev,
          lh_args, lh_ret>>

-----------------------------------------------------------------------------
(* Bounds of the model *)

MaxNodes == 5

MaxObs == 3

MaxK == 2

MaxMu == 1

MaxVar == 2

MaxLevel == 2

MaxKeys == 3

-----------------------------------------------------------------------------
(* Sequences *)

(* the same sequence, as an evaluated tuple *)
Tuple(f) == f \o <<>>

Range(s) == {s[i] : i \in DOMAIN s}

Reverse(s) == Tuple([i \in 1..Len(s) |-> s[Len(s) + 1 - i]])

Perms(S) == {p \in [1..Cardinality(S) -> S] : Range(p) = S}

RECURSIVE SeqSum(_)
SeqSum(s) == IF s = <<>> THEN 0 ELSE Head(s) + SeqSum(Tail(s))

SelectIn(s, S) == SelectSeq(s, LAMBDA x : x \in S)

RECURSIVE Pow(_, _)
Pow(b, e) == IF e = 0 THEN 1 ELSE b * Pow(b, e - 1)

-----------------------------------------------------------------------------
(* Reals and log-domain doubles *)

RECURSIVE GCD(_, _)
GCD(a, b) == IF b = 0 THEN a ELSE GCD(b, a % b)

Norm(f) ==
    IF f[1] = 0 /\ f[2] = 0 THEN <<0, 0>>
    ELSE <<f[1] \div GCD(f[1], f[2]), f[2] \div GCD(f[1], f[2])>>

NaN == <<0, 0>>

Zero == <<0, 1>>

One == <<1, 1>>

IsNaN(r) == r = NaN

IsFiniteReal(r) == r[2] > 0

(* a < b on doubles: false as soon as one side is NaN *)
RealLt(a, b) ==
    /\ ~IsNaN(a) /\ ~IsNaN(b)
    /\ a[2] # 0
    /\ \/ b[2] = 0
       \/ LET g == GCD(a[2], b[2])
          IN  a[1] * (b[2] \div g) < b[1] * (a[2] \div g)

RealAdd(a, b) ==
    IF IsNaN(a) \/ IsNaN(b) THEN NaN
    ELSE IF a[2] = 0 \/ b[2] = 0 THEN <<1, 0>>
    ELSE LET g == GCD(a[2], b[2])
         IN  Norm(<<a[1] * (b[2] \div g) + b[1] * (a[2] \div g),
                    (a[2] \div g) * b[2]>>)

(* (n1/d1) * (n2/d2), reduced before multiplying *)
Cross(n1, d1, n2, d2) ==
    LET g1 == IF GCD(n1, d2) = 0 THEN 1 ELSE GCD(n1, d2)
        g2 == IF GCD(n2, d1) = 0 THEN 1 ELSE GCD(n2, d1)
    IN  Norm(<<(n1 \div g1) * (n2 \div g2), (d1 \div g2) * (d2 \div g1)>>)

RealMul(a, b) == Cross(a[1], a[2], b[1], b[2])

RealDiv(a, b) == Cross(a[1], a[2], b[2], b[1])

NegInf == [exp |-> Zero]

LogZero == [exp |-> One]

IsFiniteLog(v) == v.exp[1] > 0 /\ v.exp[2] > 0

np_exp(v) == v.exp

np_log(r) == [exp |-> r]

LogSub(v, w) == [exp |-> RealDiv(v.exp, w.exp)]

LogAdd(v, w) == [exp |-> RealMul(v.exp, w.exp)]

LogLt(v, w) == RealLt(v.exp, w.exp)

RECURSIVE np_amax(_)
np_amax(a) ==
    IF Len(a) = 1 THEN a[1]
    ELSE LET m == np_amax(Tail(a)) IN IF LogLt(a[1], m) THEN m ELSE a[1]

RECURSIVE np_sum(_)
np_sum(a) == IF a = <<>> THEN Zero ELSE RealAdd(Head(a), np_sum(Tail(a)))

(* scipy.misc.logsumexp on a non-empty list: shift by the maximum (by 0    *)
(* when the maximum is not finite), sum the exponentials, take the log and *)
(* shift back.                                                             *)
logsumexp(a) ==
    LET m == np_amax(a)
        a_max == IF IsFiniteLog(m) THEN m ELSE LogZero
        tmp == Tuple([i \in 1..Len(a) |-> np_exp(LogSub(a[i], a_max))])
    IN  LogAdd(np_log(np_sum(tmp)), a_max)

-----------------------------------------------------------------------------
(* Dictionaries: a list of <<key, value>> in insertion order, the order in *)
(* which a dict is iterated; assigning to an existing key keeps its place. *)

Keys(d) == Tuple([i \in 1..Len(d) |-> d[i][1]])

Values(d) == Tuple([i \in 1..Len(d) |-> d[i][2]])

KeySet(d) == {d[i][1] : i \in 1..Len(d)}

Get(d, k) == d[CHOOSE i \in 1..Len(d) : d[i][1] = k][2]

Put(d, k, v) ==
    Tuple([i \in 1..Len(d) |-> IF d[i][1] = k THEN <<k, v>> ELSE d[i]])

-----------------------------------------------------------------------------
(* posterior_from_logLH *)

posterior_from_logLH(ll) ==
    LET bias == logsumexp(Values(ll))
    IN  Tuple([i \in 1..Len(ll) |-> <<ll[i][1], np_exp(LogSub(ll[i][2], bias))>>])

-----------------------------------------------------------------------------
(* sorted(items, key=operator.itemgetter(1), reverse=...): Python's sort   *)
(* is stable and compares keys with < only; with reverse=True the list is  *)
(* reversed, sorted ascending and reversed again, so equal keys keep their *)
(* original order.                                                         *)

RECURSIVE InsertByTime(_, _)
InsertByTime(s, x) ==
    IF s = <<>> THEN <<x>>
    ELSE IF x[2] < s[Len(s)][2]
         THEN Append(InsertByTime(SubSeq(s, 1, Len(s) - 1), x), s[Len(s)])
         ELSE Append(s, x)

RECURSIVE SortByTime(_)
SortByTime(s) ==
    IF s = <<>> THEN <<>>
    ELSE InsertByTime(SortByTime(SubSeq(s, 1, Len(s) - 1)), s[Len(s)])

RECURSIVE InsertByValue(_, _)
InsertByValue(s, x) ==
    IF s = <<>> THEN <<x>>
    ELSE IF RealLt(x[2], s[Len(s)][2])
         THEN Append(InsertByValue(SubSeq(s, 1, Len(s) - 1), x), s[Len(s)])
         ELSE Append(s, x)

RECURSIVE SortByValue(_)
SortByValue(s) ==
    IF s = <<>> THEN <<>>
    ELSE InsertByValue(SortByValue(SubSeq(s, 1, Len(s) - 1)), s[Len(s)])

(* variant: reverse=True left out *)
SortedAscendingOnly(items) == SortByValue(items)

(* variant: sorted ascending, then reversed (equal keys change places) *)
SortedTiesReversed(items) == Reverse(SortByValue(items))

SortedByValueReversed(items) == Reverse(SortByValue(Reverse(items)))

-----------------------------------------------------------------------------
(* Dense linear algebra on integer matrices (a matrix is a list of rows)   *)

Minor(M, i, j) ==
    LET n == Len(M)
    IN  Tuple([r \in 1..(n - 1) |->
            Tuple([c \in 1..(n - 1) |->
                M[IF r < i THEN r ELSE r + 1][IF c < j THEN c ELSE c + 1]])])

Sign(i) == IF i % 2 = 0 THEN 1 ELSE -1

RECURSIVE np_linalg_det(_)
np_linalg_det(M) ==
    IF Len(M) = 0 THEN 1
    ELSE IF Len(M) = 1 THEN M[1][1]
    ELSE SeqSum(Tuple([j \in 1..Len(M) |->
                    Sign(1 + j) * M[1][j] * np_linalg_det(Minor(M, 1, j))]))

(* det(M) * inv(M) *)
Adjugate(M) ==
    Tuple([i \in 1..Len(M) |->
        Tuple([j \in 1..Len(M) |-> Sign(i + j) * np_linalg_det(Minor(M, j, i))])])

(* v' * M * v *)
QuadForm(v, M) ==
    SeqSum(Tuple([i \in 1..Len(v) |->
              SeqSum(Tuple([j \in 1..Len(v) |-> v[i] * M[i][j] * v[j]]))]))

-----------------------------------------------------------------------------
(* logLH_source_tree(mu_s, cov_d, obs, obs_time, ref_obs)                   *)
(* The result is the exception raised, or the returned pair: the           *)
(* log-likelihood  -1/2 * quad[1]/quad[2] - 1/2 * log((2 pi)^pow * det)    *)
(* as the record [quad, pow, det], and the residual obs_d - mu_s.          *)

logLH_source_tree(mu, cov, obs, ot, ref) ==
    IF ~(Len(obs) > 1) THEN [exc |-> "AssertionError"]
    ELSE
      LET obs_d == Tuple([l \in 1..Len(obs) |-> ot[obs[l]] - ot[ref]])
          resid == Tuple([l \in 1..Len(obs) |-> obs_d[l] - mu[l]])
          det   == np_linalg_det(cov)
      IN  IF det = 0 THEN [exc |-> "LinAlgError"]
          ELSE IF det < 0 THEN [exc |-> "ValueError"]
          ELSE [exc |-> "none",
                likelihood |-> [quad |-> <<QuadForm(resid, Adjugate(cov)), det>>,
                                pow  |-> Len(obs_d) - 1,
                                det  |-> det],
                resid |-> resid]

ISqrt(n) == CHOOSE r \in 0..n : r * r = n

(* The double a log-likelihood record stands for on the lattice of the     *)
(* header (quad an integer Q, det a perfect square): log of                *)
(* 2^-Q / sqrt(det), up to the common term 1/2 log(2 pi).                  *)
FloatOf(lik) ==
    [exp |-> Norm(<<1, Pow(2, lik.quad[1] \div lik.quad[2]) * ISqrt(lik.det)>>)]

-----------------------------------------------------------------------------
(* GAU_LI_EMPIRICAL.source_est_tools, by its contract.  A path-length      *)
(* ensemble is [topo, isolated]: the shape of the delays seen from a       *)
(* source and one node that no path reaches (0: none).                     *)
(*   "star":       independent unit-variance branches of 1 or 2 hops       *)
(*   "chain":      one-hop branches; the two selected observers of lowest  *)
(*                 id share an edge                                        *)
(*   "degenerate": one-hop branches with fully correlated delays           *)

Topologies == {"star", "chain", "degenerate"}

compute_mean_shortest_path(pl) ==
    Tuple([u \in 1..MaxNodes |-> Tuple([v \in 1..MaxNodes |->
        IF u = v THEN 0
        ELSE IF pl.isolated \in {u, v} THEN -1
        ELSE IF pl.topo = "star" THEN 1 + ((u + v) % 2)
        ELSE 1])])

(* <<mean vector, selected observers>>: the observers other than the       *)
(* reference that the candidate reaches, in the order of obs_list.         *)
mu_vector_s(mean, s, ol, ref) ==
    LET usable == {o \in Range(ol) :
                      o # ref /\ mean[s][o] >= 0 /\ mean[s][ref] >= 0}
        sel == SelectIn(ol, usable)
    IN  <<Tuple([l \in 1..Len(sel) |-> mean[s][sel[l]] - mean[s][ref]]), sel>>

(* square matrix over the selected observers, in their order *)
cov_matrix(pl, sel, s, ref) ==
    LET rank(o) == Cardinality({x \in Range(sel) : x <= o})
    IN  Tuple([i \in 1..Len(sel) |-> Tuple([j \in 1..Len(sel) |->
            CASE pl.topo = "star" -> IF i = j THEN 1 ELSE 0
              [] pl.topo = "chain" ->
                   IF i = j THEN (IF rank(sel[i]) = 2 THEN 2 ELSE 1)
                   ELSE IF {rank(sel[i]), rank(sel[j])} = {1, 2} THEN 1 ELSE 0
              [] OTHER -> 1])])

-----------------------------------------------------------------------------
(* ml_estimate(graph, obs_time, path_lengths) *)

NodeOrders(n) == {[i \in 1..n |-> i], [i \in 1..n |-> n + 1 - i]}

ObsTimes == {0, 1}

ObserverSets(n) == {X \in SUBSET (1..n) : Cardinality(X) <= MaxObs}

NoResult == [ref |-> 0, best |-> 0, scores |-> <<>>]

NoCall == [exc |-> "not called"]

Locals ==
    /\ obs_list = <<>>
    /\ ref_obs = 0
    /\ loglikelihood = <<>>
    /\ todo = {}
    /\ posterior = <<>>
    /\ scores = <<>>
    /\ source_candidate = 0
    /\ error = "none"
    /\ evals = {}

Init ==
    /\ \E n \in 1..MaxNodes :
          /\ nodes \in NodeOrders(n)
          /\ \E O \in ObserverSets(n) : obs_time \in [O -> ObsTimes]
          /\ path_lengths \in [topo : Topologies, isolated : {0, n}]
    /\ pc = "start"
    /\ Locals
    /\ prev = NoResult
    /\ lh_args = NoCall
    /\ lh_ret = NoCall

(* the permutations random.shuffle can leave in the list *)
Shuffles(l) == {Tuple([i \in 1..Len(l) |-> l[q[i]]]) : q \in Perms(1..Len(l))}

RECURSIVE SetToSeq(_)
SetToSeq(S) ==
    IF S = {} THEN <<>>
    ELSE LET m == CHOOSE x \in S : \A y \in S : x <= y
         IN  <<m>> \o SetToSeq(S \ {m})

(* lines 40-41: the observers sorted by observation time (the items of    *)
(* obs_time taken by ascending node; the shuffle forgets the order)        *)
SortedObservers(ot) ==
    LET keys == SetToSeq(DOMAIN ot)
        sorted_obs == SortByTime(Tuple([i \in 1..Len(keys) |-> <<keys[i], ot[keys[i]]>>]))
    IN  Keys(sorted_obs)

(* lines 40-43; obs_list[0] of an empty list raises IndexError *)
SelectReference ==
    /\ pc = "start"
    /\ \E shuffled \in Shuffles(SortedObservers(obs_time)) :
          /\ obs_list' = shuffled
          /\ IF shuffled = <<>>
             THEN /\ pc' = "failed"
                  /\ error' = "IndexError"
                  /\ ref_obs' = ref_obs
             ELSE /\ pc' = "init"
                  /\ error' = error
                  /\ ref_obs' = shuffled[1]
    /\ UNCHANGED <<nodes, obs_time, path_lengths, loglikelihood, todo, posterior,
                   scores, source_candidate, evals, prev, lh_args, lh_ret>>

(* variant: the reference observer is not removed from the candidates *)
CandidateSetKeepingRef(ns, ol) == Range(ns) \ Range(Tail(ol))

(* line 54 *)
CandidateSet(ns, ol) == Range(ns) \ Range(ol)

(* variant: the dictionary is initialised over the candidates only *)
InitLikelihoodCandidatesOnly ==
    /\ pc = "init"
    /\ loglikelihood' =
          LET cand == SelectIn(nodes, Range(nodes) \ Range(obs_list))
          IN  Tuple([i \in 1..Len(cand) |-> <<cand[i], NegInf>>])
    /\ todo' = Range(nodes) \ Range(obs_list)
    /\ pc' = "loop"
    /\ UNCHANGED <<nodes, obs_time, path_lengths, obs_list, ref_obs, posterior,
                   scores, source_candidate, error, evals, prev, lh_args, lh_ret>>

(* lines 47-54 *)
InitLikelihood ==
    /\ pc = "init"
    /\ loglikelihood' = Tuple([i \in 1..Len(nodes) |-> <<nodes[i], NegInf>>])
    /\ todo' = CandidateSet(nodes, obs_list)
    /\ pc' = "loop"
    /\ UNCHANGED <<nodes, obs_time, path_lengths, obs_list, ref_obs, posterior,
                   scores, source_candidate, error, evals, prev, lh_args, lh_ret>>

(* lines 57-62 for candidate s *)
Evaluate(s, ol, ref) ==
    LET mean_path_lengths == compute_mean_shortest_path(path_lengths)
        m == mu_vector_s(mean_path_lengths, s, ol, ref)
        mu_s == m[1]
        selected_obs == m[2]
        cov_d_s == cov_matrix(path_lengths, selected_obs, s, ref)
    IN  logLH_source_tree(mu_s, cov_d_s, selected_obs, obs_time, ref)

(* variant: the observers are shuffled and the reference drawn anew in     *)
(* every iteration                                                         *)
EvaluateCandidateReselecting ==
    /\ pc = "loop"
    /\ \E s \in todo : \E shuffled \in Shuffles(obs_list) :
          LET r == Evaluate(s, shuffled, shuffled[1])
          IN  /\ obs_list' = shuffled
              /\ ref_obs' = shuffled[1]
              /\ evals' = evals \cup {<<s, shuffled[1], shuffled>>}
              /\ IF r.exc # "none"
                 THEN /\ pc' = "failed"
                      /\ error' = r.exc
                      /\ UNCHANGED <<loglikelihood, todo>>
                 ELSE /\ loglikelihood' = Put(loglikelihood, s, FloatOf(r.likelihood))
                      /\ todo' = todo \ {s}
                      /\ UNCHANGED <<pc, error>>
    /\ UNCHANGED <<nodes, obs_time, path_lengths, posterior, scores,
                   source_candidate, prev, lh_args, lh_ret>>

(* lines 56-63: one iteration of the loop; an exception raised inside      *)
(* logLH_source_tree is caught nowhere and ends the call.                  *)
EvaluateCandidate ==
    /\ pc = "loop"
    /\ \E s \in todo :
          LET r == Evaluate(s, obs_list, ref_obs)
          IN  /\ evals' = evals \cup {<<s, ref_obs, obs_list>>}
              /\ IF r.exc # "none"
                 THEN /\ pc' = "failed"
                      /\ error' = r.exc
                      /\ UNCHANGED <<loglikelihood, todo>>
                 ELSE /\ loglikelihood' = Put(loglikelihood, s, FloatOf(r.likelihood))
                      /\ todo' = todo \ {s}
                      /\ UNCHANGED <<pc, error>>
    /\ UNCHANGED <<nodes, obs_time, path_lengths, obs_list, ref_obs, posterior,
                   scores, source_candidate, prev, lh_args, lh_ret>>

(* lines 71-76; logsumexp of an empty list raises ValueError (np.amax) *)
Rank ==
    /\ pc = "loop"
    /\ todo = {}
    /\ IF loglikelihood = <<>>
       THEN /\ pc' = "failed"
            /\ error' = "ValueError"
            /\ UNCHANGED <<posterior, scores, source_candidate>>
       ELSE /\ posterior' = posterior_from_logLH(loglikelihood)
            /\ scores' = SortedByValueReversed(posterior')
            /\ source_candidate' = scores'[1][1]
            /\ pc' = "returned"
            /\ error' = error
    /\ UNCHANGED <<nodes, obs_time, path_lengths, obs_list, ref_obs, loglikelihood,
                   todo, evals, prev, lh_args, lh_ret>>

Next == SelectReference \/ InitLikelihood \/ EvaluateCandidate \/ Rank

Spec == Init /\ [][Next]_vars

-----------------------------------------------------------------------------
(* Two calls of ml_estimate on the same input, one after the other: the    *)
(* second call starts when the first has returned, with fresh locals.      *)

InitTwice ==
    /\ \E n \in 1..MaxNodes :
          /\ nodes \in NodeOrders(n)
          /\ \E m \in 0..MaxObs : m <= n /\ obs_time \in [1..m -> ObsTimes]
          /\ path_lengths \in [topo : Topologies, isolated : {0, n}]
    /\ pc = "start"
    /\ Locals
    /\ prev = NoResult
    /\ lh_args = NoCall
    /\ lh_ret = NoCall

CallAgain ==
    /\ pc = "returned"
    /\ prev = NoResult
    /\ prev' = [ref |-> ref_obs, best |-> source_candidate, scores |-> scores]
    /\ pc' = "start"
    /\ obs_list' = <<>>
    /\ ref_obs' = 0
    /\ loglikelihood' = <<>>
    /\ todo' = {}
    /\ posterior' = <<>>
    /\ scores' = <<>>
    /\ source_candidate' = 0
    /\ error' = "none"
    /\ evals' = {}
    /\ UNCHANGED <<nodes, obs_time, path_lengths, lh_args, lh_ret>>

NextTwice == Next \/ CallAgain

SpecTwice == InitTwice /\ [][NextTwice]_vars

-----------------------------------------------------------------------------
(* posterior_from_logLH called on its own, on every dictionary of up to    *)
(* MaxKeys entries with values -inf, 0, -ln 2, ..., -MaxLevel ln 2.        *)

LogLevels == {NegInf} \cup {[exp |-> <<1, Pow(2, k)>>] : k \in 0..MaxLevel}

InitPost ==
    /\ \E n \in 1..MaxKeys :
          /\ nodes \in NodeOrders(n)
          /\ \E v \in [1..n -> LogLevels] :
                loglikelihood = Tuple([i \in 1..n |-> <<nodes[i], v[i]>>])
    /\ obs_time = <<>>
    /\ path_lengths = [topo |-> "star", isolated |-> 0]
    /\ pc = "post_call"
    /\ obs_list = <<>>
    /\ ref_obs = 0
    /\ todo = {}
    /\ posterior = <<>>
    /\ scores = <<>>
    /\ source_candidate = 0
    /\ error = "none"
    /\ evals = {}
    /\ prev = NoResult
    /\ lh_args = NoCall
    /\ lh_ret = NoCall

CallPosterior ==
    /\ pc = "post_call"
    /\ posterior' = posterior_from_logLH(loglikelihood)
    /\ pc' = "post_done"
    /\ UNCHANGED <<nodes, obs_time, path_lengths, obs_list, ref_obs, loglikelihood,
                   todo, scores, source_candidate, error, evals, prev, lh_args,
                   lh_ret>>

SpecPost == InitPost /\ [][CallPosterior]_vars

-----------------------------------------------------------------------------
(* logLH_source_tree called on its own: k <= MaxK selected observers out   *)
(* of the observers 1..k+1, any reference, any order of obs, mean delays   *)
(* in 0..MaxMu and symmetric matrices with entries up to MaxVar.           *)

Pairs(k) == {p \in SUBSET (1..k) : Cardinality(p) = 2}

SymMatrices(k) ==
    {Tuple([i \in 1..k |-> Tuple([j \in 1..k |->
                IF i = j THEN d[i] ELSE o[{i, j}]])]) :
        d \in [1..k -> 1..MaxVar], o \in [Pairs(k) -> 0..MaxVar]}

InitLH ==
    /\ \E k \in 0..MaxK : \E ref \in 1..(k + 1) :
          \E obs \in Shuffles(SetToSeq((1..(k + 1)) \ {ref})) :
          \E ot \in [1..(k + 1) -> ObsTimes] :
          \E mu \in [1..k -> 0..MaxMu] :
          \E cov \in SymMatrices(k) :
             lh_args = [mu_s |-> Tuple(mu), cov_d |-> cov, obs |-> obs,
                        obs_time |-> ot, ref_obs |-> ref]
    /\ lh_ret = NoCall
    /\ nodes = <<>>
    /\ obs_time = <<>>
    /\ path_lengths = [topo |-> "star", isolated |-> 0]
    /\ pc = "lh_call"
    /\ Locals
    /\ prev = NoResult

CallLogLH ==
    /\ pc = "lh_call"
    /\ lh_ret' = logLH_source_tree(lh_args.mu_s, lh_args.cov_d, lh_args.obs,
                                   lh_args.obs_time, lh_args.ref_obs)
    /\ pc' = "lh_done"
    /\ UNCHANGED <<nodes, obs_time, path_lengths, obs_list, ref_obs, loglikelihood,
                   todo, posterior, scores, source_candidate, error, evals, prev,
                   lh_args>>

SpecLH == InitLH /\ [][CallLogLH]_vars

-----------------------------------------------------------------------------
(* Properties *)

Observers == DOMAIN obs_time

Candidates == Range(nodes) \ Observers

Evaluated == {e[1] : e \in evals}

Infeasible(s) == Evaluate(s, obs_list, ref_obs).exc \in {"AssertionError", "LinAlgError"}

NodeIndex(n) == CHOOSE i \in 1..Len(nodes) : nodes[i] = n

(* the nodes whose posterior is a number that no other posterior exceeds *)
MaxPosteriorNodes ==
    {posterior[i][1] : i \in {j \in 1..Len(posterior) :
        /\ ~IsNaN(posterior[j][2])
        /\ \A k \in 1..Len(posterior) : ~RealLt(posterior[j][2], posterior[k][2])}}

(* C1: a candidate whose evaluation is infeasible (fewer than 2 selected   *)
(* observers, singular covariance) keeps log-likelihood -inf and does not  *)
(* abort the call.                                                         *)
C1_FailureIsolated ==
    \A s \in Evaluated :
        Infeasible(s) => pc # "failed" /\ Get(loglikelihood, s) = NegInf

(* C2: with fewer than 2 observers, or with no candidate node, the call    *)
(* never returns a (best_candidate, ranked_scores) pair.                   *)
C2_InsufficientInputFails ==
    (Cardinality(Observers) < 2 \/ Candidates = {}) => pc # "returned"

(* C3 as stated: on return ranked_scores holds exactly one pair per        *)
(* non-observer node and none for an observer.                             *)
C3_ScoresCoverCandidatesOnly ==
    pc = "returned" =>
        /\ KeySet(scores) = Candidates
        /\ Len(scores) = Cardinality(Candidates)

(* C3 amended: on return ranked_scores holds exactly one pair for every    *)
(* node of the graph, observers included.                                  *)
C3_ScoresCoverEveryNode ==
    pc = "returned" =>
        /\ KeySet(scores) = Range(nodes)
        /\ Len(scores) = Len(nodes)

C3_Witness == pc = "returned" /\ Observers # {} /\ Candidates # {}

(* C4: on return the best candidate is the first element of ranked_scores, *)
(* ranked_scores is in descending order of posterior (no pair precedes a   *)
(* pair of larger posterior) and no node has a posterior strictly larger   *)
(* than that of the best candidate.                                        *)
C4_BestIsArgmax ==
    pc = "returned" =>
        /\ source_candidate = scores[1][1]
        /\ \A i, j \in 1..Len(scores) :
              i < j => ~RealLt(scores[i][2], scores[j][2])
        /\ \A i \in 1..Len(posterior) :
              ~RealLt(Get(posterior, source_candidate), posterior[i][2])

C4_Witness ==
    /\ pc = "returned"
    /\ \E i \in 2..Len(scores) :
          RealLt(Zero, scores[i][2]) /\ RealLt(scores[i][2], scores[1][2])

(* C5: every posterior is a non-negative number, the posteriors of the     *)
(* entries of finite log-likelihood sum to 1, and an entry of              *)
(* log-likelihood -inf has posterior exactly 0, also when every entry is   *)
(* -inf.                                                                   *)
C5_PosteriorNormalised ==
    pc = "post_done" =>
        LET finite == SelectSeq(Tuple([i \in 1..Len(posterior) |->
                          <<posterior[i][2], loglikelihood[i][2]>>]),
                          LAMBDA e : IsFiniteLog(e[2]))
        IN  /\ \A i \in 1..Len(posterior) :
                  ~IsNaN(posterior[i][2]) /\ IsFiniteReal(posterior[i][2])
            /\ finite # <<>> => np_sum(Keys(finite)) = One
            /\ \A i \in 1..Len(posterior) :
                  loglikelihood[i][2] = NegInf => posterior[i][2] = Zero

(* C6: the first output holds every node of maximum posterior (all the     *)
(* nodes tied for the maximum).                                            *)
C6_AllMaximaReturned ==
    pc = "returned" => \A n \in MaxPosteriorNodes : n = source_candidate

(* C7: once selected, the reference observer is a key of obs_time and is   *)
(* not in the candidate set, whatever the shuffle.                         *)
C7_ReferenceIsObserver ==
    ref_obs # 0 => ref_obs \in Observers /\ ref_obs \notin (todo \cup Evaluated)

C7_Witness ==
    /\ pc = "loop" /\ todo # {} /\ Evaluated # {}
    /\ ref_obs # SortedObservers(obs_time)[1]

(* C8: a second call on the same input that selects the same reference     *)
(* observer returns the same ranked_scores and the same best candidate,    *)
(* in whatever order the candidates were visited, and nodes of equal       *)
(* posterior stand in ranked_scores in the order of the graph's nodes.     *)
C8_SameReferenceSameResult ==
    pc = "returned" =>
        /\ prev.ref = ref_obs =>
              scores = prev.scores /\ source_candidate = prev.best
        /\ \A i, j \in 1..Len(scores) :
              i < j /\ scores[i][2] = scores[j][2]
                  => NodeIndex(scores[i][1]) < NodeIndex(scores[j][1])

C8_Witness ==
    /\ pc = "returned"
    /\ prev.ref = ref_obs
    /\ Cardinality(Evaluated) >= 2
    /\ \E i, j \in 1..Len(scores) : i < j /\ scores[i][2] = scores[j][2]

(* C9: no candidate is evaluated before the reference observer is          *)
(* selected, and every evaluation of the call used the same ref_obs and    *)
(* the same obs_list, those the call still holds.                          *)
C9_OneReferencePerCall ==
    /\ pc = "start" => evals = {}
    /\ \A e \in evals :
          e[2] = ref_obs /\ e[3] = obs_list /\ ref_obs = obs_list[1]

C9_Witness == Cardinality(evals) >= 2 /\ Len(obs_list) >= 3

(* the log-density of N(mu, cov) at x, in the form of a log-likelihood     *)
(* record: the power of 2 pi is the dimension of x                         *)
GaussianLogDensity(x, mu, cov) ==
    [quad |-> <<QuadForm(Tuple([l \in 1..Len(x) |-> x[l] - mu[l]]), Adjugate(cov)),
                np_linalg_det(cov)>>,
     pow  |-> Len(x),
     det  |-> np_linalg_det(cov)]

(* C10: with k >= 2 selected observers the returned log-likelihood is      *)
(* -1/2 (x-mu)' inv(Sigma) (x-mu) - 1/2 log((2 pi)^k det(Sigma)) with      *)
(* x[l] = obs_time[obs[l]] - obs_time[ref_obs] in the order of obs.        *)
C10_GaussianLogDensity ==
    (pc = "lh_done" /\ Len(lh_args.obs) >= 2 /\ lh_ret.exc = "none") =>
        lh_ret.likelihood =
            GaussianLogDensity(
                Tuple([l \in 1..Len(lh_args.obs) |->
                    lh_args.obs_time[lh_args.obs[l]]
                        - lh_args.obs_time[lh_args.ref_obs]]),
                lh_args.mu_s, lh_args.cov_d)

====
